---- MODULE Spec2Model ----
(***************************************************************************)
(* A model of the TreeSort job runner (scripts/run_treesort.py and the     *)
(* earlier package scripts/treesortrunner/).  Python strings are modelled  *)
(* as sequences of one-character strings so that strip(), startswith(),    *)
(* slicing, split() and re.sub() are computed, not assumed.                *)
(***************************************************************************)
EXTENDS Integers, Sequences, FiniteSets, TLC

(***************************************************************************)
(* Bounds of the model.                                                    *)
(***************************************************************************)
\* Largest number of leading "ws:" markers on a file id / directory name.
MaxWs == 2
\* Largest number of blanks padding either side of a reference segment.
MaxPad == 1
\* Largest number of entries of a comma-separated segments string.
MaxSegs == 2
\* Largest number of times is_job_data_valid is applied to one record.
MaxCalls == 3
\* Largest length of a generated FASTA text.
MaxLen == 4
\* Largest number of sanitization passes over one FASTA text.
MaxPasses == 2
\* Largest number of "|"-separated tokens of a generated FASTA header.
MaxTokens == 4
\* Largest number of lines of a generated FASTA file of records.
MaxLines == 3
\* Largest number of times prepare_dataset is called on one runner.
MaxSplits == 2

(***************************************************************************)
(* Python values.                                                          *)
(***************************************************************************)
\* Python's None (JSON null): a value distinct from every string.
None == <<"None">>

\* `not text` for a value that is a str or None.
Falsy(text) == text = None \/ text = <<>>

\* The characters str.strip() removes.
Whitespace == {" ", "\t", "\n", "\r"}

RECURSIVE lstrip(_)
lstrip(s) == IF s # <<>> /\ Head(s) \in Whitespace THEN lstrip(Tail(s)) ELSE s

RECURSIVE rstrip(_)
rstrip(s) ==
  IF s # <<>> /\ s[Len(s)] \in Whitespace THEN rstrip(SubSeq(s, 1, Len(s) - 1)) ELSE s

\* str.strip()
strip(s) == rstrip(lstrip(s))

\* str.startswith(prefix)
startswith(s, prefix) ==
  Len(s) >= Len(prefix) /\ SubSeq(s, 1, Len(prefix)) = prefix

\* s[n:]
SliceFrom(s, n) == SubSeq(s, n + 1, Len(s))

\* The positions of s holding the character c.
Positions(s, c) == {i \in 1..Len(s) : s[i] = c}

Min(S) == CHOOSE x \in S : \A y \in S : x <= y

\* str.split(sep) for a one-character separator.
RECURSIVE split(_, _)
split(s, sep) ==
  IF Positions(s, sep) = {} THEN <<s>>
  ELSE LET i == Min(Positions(s, sep))
       IN  <<SubSeq(s, 1, i - 1)>> \o split(SliceFrom(s, i), sep)

\* sep.join(parts)
RECURSIVE join(_, _)
join(parts, sep) ==
  IF parts = <<>> THEN <<>>
  ELSE IF Len(parts) = 1 THEN parts[1]
  ELSE parts[1] \o sep \o join(Tail(parts), sep)

\* s * n
RECURSIVE Repeat(_, _)
Repeat(s, n) == IF n = 0 THEN <<>> ELSE s \o Repeat(s, n - 1)

\* `x in list`
InList(x, list) == \E i \in 1..Len(list) : list[i] = x

(***************************************************************************)
(* Constants of run_treesort.py.                                           *)
(***************************************************************************)
DEFAULT_REF_SEGMENT == <<"H", "A">>

DESCRIPTOR_FILE_NAME ==
  <<"d", "e", "s", "c", "r", "i", "p", "t", "o", "r", ".", "c", "s", "v">>

INPUT_FASTA_FILE_NAME == <<"i", "n", "p", "u", "t", ".", "f", "a", "s", "t", "a">>

VALID_SEGMENTS ==
  << <<"P", "B", "2">>, <<"P", "B", "1">>, <<"P", "A">>, <<"H", "A">>,
     <<"N", "P">>, <<"N", "A">>, <<"M", "P">>, <<"N", "S">> >>

InputSource_FastaData == <<"f", "a", "s", "t", "a", "_", "d", "a", "t", "a">>

InputSource_FastaFileID ==
  <<"f", "a", "s", "t", "a", "_", "f", "i", "l", "e", "_", "i", "d">>

InputSource_PreparedFiles ==
  <<"p", "r", "e", "p", "a", "r", "e", "d", "_", "f", "i", "l", "e", "s">>

\* [i.value for i in InputSource]
InputSource ==
  <<InputSource_FastaData, InputSource_FastaFileID, InputSource_PreparedFiles>>

Method_Local == <<"l", "o", "c", "a", "l">>

Method_MinCut == <<"m", "i", "n", "c", "u", "t">>

\* [m.value for m in Method]
Method == <<Method_Local, Method_MinCut>>

TreeInference_FastTree == <<"F", "a", "s", "t", "T", "r", "e", "e">>

TreeInference_IQTree == <<"I", "Q", "-", "T", "r", "e", "e">>

TreeInference == <<TreeInference_FastTree, TreeInference_IQTree>>

\* The workspace marker.
WsPrefix == <<"w", "s", ":">>

\* Trim a string that's possibly null and always return a trimmed, non-null value.
safeTrim(text) == IF Falsy(text) THEN <<>> ELSE strip(text)

(***************************************************************************)
(* TreeSortRunner.is_job_data_valid of run_treesort.py.  A failure is the  *)
(* exception raised: the text of its message and the value formatted into  *)
(* it.                                                                     *)
(***************************************************************************)
NoErr == [msg |-> "", arg |-> <<>>]

Err(m, a) == [msg |-> m, arg |-> a]

\* Validate the input_source.
check_input_source(jd) ==
  IF ~InList(jd.input_source, InputSource)
  THEN Err("job_data.input_source is not a valid input source", <<>>)
  ELSE NoErr

\* If input_source is fasta_data, make sure an input_fasta_data value was provided.
check_fasta_data(jd) ==
  IF jd.input_source = InputSource_FastaData /\ Falsy(jd.input_fasta_data)
  THEN Err("The input FASTA data is invalid", <<>>)
  ELSE NoErr

\* check_prepare_dataset without the test of input_fasta_file_id.
check_prepare_dataset_no_id(jd) ==
  IF jd.prepare_dataset
  THEN IF jd.input_source = InputSource_FastaData /\ Falsy(jd.input_fasta_data)
       THEN Err("The input FASTA data is invalid", <<>>)
       ELSE NoErr
  ELSE IF jd.input_source # InputSource_PreparedFiles
       THEN Err("The input source is invalid", jd.input_source)
       ELSE IF Falsy(jd.input_existing_directory)
       THEN Err("An existing directory of prepared files is required", <<>>)
       ELSE NoErr

\* The checks of the `if self.job_data.prepare_dataset: ... else: ...` block.
check_prepare_dataset(jd) ==
  IF jd.prepare_dataset
  THEN IF jd.input_source = InputSource_FastaData
       THEN IF Falsy(jd.input_fasta_data)
            THEN Err("The input FASTA data is invalid", <<>>)
            ELSE NoErr
       ELSE IF jd.input_source = InputSource_FastaFileID
       THEN IF Falsy(jd.input_fasta_file_id)
            THEN Err("The input FASTA file ID is invalid", <<>>)
            ELSE NoErr
       ELSE NoErr
  ELSE IF jd.input_source # InputSource_PreparedFiles
       THEN Err("The input source is invalid", jd.input_source)
       ELSE IF Falsy(jd.input_existing_directory)
       THEN Err("An existing directory of prepared files is required", <<>>)
       ELSE NoErr

\* remove_ws_prefix removing every leading "ws:" instead of one.
RECURSIVE remove_every_ws_prefix(_)
remove_every_ws_prefix(text) ==
  IF startswith(text, WsPrefix) THEN remove_every_ws_prefix(SliceFrom(text, 3)) ELSE text

\* Remove the "ws:" prefix: text[3:] when text.startswith("ws:").
remove_ws_prefix(text) ==
  IF startswith(text, WsPrefix) THEN SliceFrom(text, 3) ELSE text

\* The assignments of the same block, made once its checks have passed.
strip_prefixes(jd) ==
  IF jd.prepare_dataset
  THEN IF jd.input_source = InputSource_FastaFileID
       THEN [jd EXCEPT !.input_fasta_file_id = remove_ws_prefix(@)]
       ELSE jd
  ELSE [jd EXCEPT !.input_existing_directory = remove_ws_prefix(@)]

\* Validate the inference method.
check_method(jd) ==
  IF ~InList(jd.method, Method)
  THEN Err("job_data.method is not a valid method", <<>>)
  ELSE NoErr

\* Validate the output path.
check_output_path(jd) ==
  IF Falsy(jd.output_path) THEN Err("The output path is invalid", <<>>) ELSE NoErr

\* Validate the reference segment and provide a default if not provided.
\* The default is assigned to the local refSegment only.
check_ref_segment(jd) ==
  LET refSegment == safeTrim(jd.ref_segment)
  IN  IF refSegment = <<>> THEN NoErr
      ELSE IF ~InList(refSegment, VALID_SEGMENTS)
      THEN Err("Invalid reference segment", refSegment)
      ELSE NoErr

\* check_segments looking at the first entry only.
check_segments_first_only(jd) ==
  LET segments == safeTrim(jd.segments)
      parts    == split(segments, ",")
  IN  IF Len(segments) > 0 /\ ~InList(parts[1], VALID_SEGMENTS)
      THEN Err("Invalid segment", parts[1])
      ELSE NoErr

\* Validate the segments.
check_segments(jd) ==
  LET segments == safeTrim(jd.segments)
      parts    == split(segments, ",")
      bad      == {i \in 1..Len(parts) : ~InList(parts[i], VALID_SEGMENTS)}
  IN  IF Len(segments) > 0 /\ bad # {}
      THEN Err("Invalid segment", parts[Min(bad)])
      ELSE NoErr

Invalid(e, jd) == [ok |-> FALSE, err |-> e, job_data |-> jd]

\* is_job_data_valid with the output path validated before the method.
is_job_data_valid_output_first(jd) ==
  IF check_input_source(jd) # NoErr THEN Invalid(check_input_source(jd), jd)
  ELSE IF check_fasta_data(jd) # NoErr THEN Invalid(check_fasta_data(jd), jd)
  ELSE IF check_prepare_dataset(jd) # NoErr
  THEN Invalid(check_prepare_dataset(jd), jd)
  ELSE LET jd2 == strip_prefixes(jd)
       IN  IF check_output_path(jd2) # NoErr THEN Invalid(check_output_path(jd2), jd2)
           ELSE IF check_method(jd2) # NoErr THEN Invalid(check_method(jd2), jd2)
           ELSE IF check_ref_segment(jd2) # NoErr
           THEN Invalid(check_ref_segment(jd2), jd2)
           ELSE IF check_segments(jd2) # NoErr
           THEN Invalid(check_segments(jd2), jd2)
           ELSE [ok |-> TRUE, err |-> NoErr, job_data |-> jd2]

\* Is the JobData instance valid?  Returns the boolean, the exception caught
\* (written to stderr) and the record as the call leaves it.
is_job_data_valid(jd) ==
  IF check_input_source(jd) # NoErr THEN Invalid(check_input_source(jd), jd)
  ELSE IF check_fasta_data(jd) # NoErr THEN Invalid(check_fasta_data(jd), jd)
  ELSE IF check_prepare_dataset(jd) # NoErr
  THEN Invalid(check_prepare_dataset(jd), jd)
  ELSE LET jd2 == strip_prefixes(jd)
       IN  IF check_method(jd2) # NoErr THEN Invalid(check_method(jd2), jd2)
           ELSE IF check_output_path(jd2) # NoErr
           THEN Invalid(check_output_path(jd2), jd2)
           ELSE IF check_ref_segment(jd2) # NoErr
           THEN Invalid(check_ref_segment(jd2), jd2)
           ELSE IF check_segments(jd2) # NoErr
           THEN Invalid(check_segments(jd2), jd2)
           ELSE [ok |-> TRUE, err |-> NoErr, job_data |-> jd2]

(***************************************************************************)
(* The job records read from jobdesc.json.  Building a JobData needs       *)
(* every field of the dataclass to be present; a field may be null.        *)
(***************************************************************************)
SampleFasta == <<">", "a", "|", "H", "A", "|", "\n", "A", "\n">>

StaleFasta == <<">", "o", "\n">>

OutPath == <<"/", "o">>

Bogus == <<"b", "o", "g", "u", "s">>

InputSource_FastaFile == <<"f", "a", "s", "t", "a", "_", "f", "i", "l", "e">>

\* A record that passes every rule of run_treesort.py.
BaseJob ==
  [clades_path |-> <<>>, deviation |-> 2, equal_rates |-> FALSE,
   input_existing_directory |-> None, input_fasta_data |-> SampleFasta,
   input_fasta_file_id |-> None, input_source |-> InputSource_FastaData,
   is_time_scaled |-> FALSE, match_on_epi |-> FALSE, match_on_regex |-> None,
   match_on_strain |-> FALSE, method |-> Method_MinCut, no_collapse |-> FALSE,
   output_path |-> OutPath, prepare_dataset |-> TRUE, p_value |-> 0,
   ref_segment |-> DEFAULT_REF_SEGMENT,
   ref_tree_inference |-> TreeInference_IQTree, segments |-> None]

\* Names carrying 0..MaxWs leading workspace markers.
WsNames(bodies) == {Repeat(WsPrefix, k) \o b : k \in 0..MaxWs, b \in bodies}

\* Reference segments padded by up to MaxPad blanks on either side.
Blank == <<" ">>

PaddedSegments ==
  {Repeat(Blank, i) \o c \o Repeat(Blank, j) :
     i \in 0..MaxPad, j \in 0..MaxPad,
     c \in {<<>>, <<"H", "A">>, <<"X", "X">>, <<"h", "a">>}}

\* Comma-separated segments strings of up to MaxSegs entries.
SegmentEntries == {<<"H", "A">>, <<"X", "X">>, <<>>, <<" ", "N", "A">>}

SegmentLists == UNION {[1..n -> SegmentEntries] : n \in 0..MaxSegs}

SegmentStrings == {join(l, <<",">>) : l \in SegmentLists} \cup {Blank}

\* Every rule switched on and off, with few values per field.
JobsByRule ==
  {[BaseJob EXCEPT !.input_source = src, !.input_fasta_data = data,
                   !.input_fasta_file_id = id, !.input_existing_directory = dir,
                   !.prepare_dataset = prep, !.method = m, !.output_path = out,
                   !.ref_segment = ref, !.segments = segs,
                   !.ref_tree_inference = inf] :
     src \in {InputSource_FastaData, InputSource_FastaFileID,
              InputSource_PreparedFiles, InputSource_FastaFile, None},
     data \in {None, <<>>, SampleFasta},
     id \in {<<>>, WsPrefix \o <<"x">>},
     dir \in {None, <<"d">>},
     prep \in BOOLEAN,
     m \in {Method_MinCut, Method_Local, Bogus},
     out \in {<<>>, OutPath},
     ref \in {DEFAULT_REF_SEGMENT, <<"X", "X">>},
     segs \in {None, <<"X", "X">>},
     inf \in {TreeInference_FastTree, TreeInference_IQTree, Bogus}}

\* File ids and directory names with workspace markers.
JobsByName ==
  {[BaseJob EXCEPT !.input_source = src, !.input_fasta_file_id = id,
                   !.input_existing_directory = dir, !.prepare_dataset = prep,
                   !.method = m] :
     src \in {InputSource_FastaFileID, InputSource_PreparedFiles},
     id \in WsNames({<<>>, <<"x">>}) \cup {None},
     dir \in WsNames({<<>>, <<"d">>}) \cup {None},
     prep \in BOOLEAN,
     m \in {Method_MinCut, Bogus}}

\* Reference segments and segments strings.
JobsBySegment ==
  {[BaseJob EXCEPT !.ref_segment = ref, !.segments = segs] :
     ref \in PaddedSegments \cup {None, <<"\t">>}, segs \in SegmentStrings \cup {None}}

\* The options of the two command lines.
JobsByOption ==
  {[BaseJob EXCEPT !.clades_path = cl, !.match_on_strain = ms, !.match_on_epi = me,
                   !.match_on_regex = mr, !.no_collapse = nc, !.equal_rates = er,
                   !.is_time_scaled = ts, !.ref_tree_inference = inf,
                   !.segments = segs] :
     cl \in {<<>>, <<"/", "c">>}, ms \in BOOLEAN, me \in BOOLEAN,
     mr \in {None, <<>>, <<".", "*">>}, nc \in BOOLEAN, er \in BOOLEAN,
     ts \in BOOLEAN,
     inf \in {TreeInference_FastTree, TreeInference_IQTree},
     segs \in {None, <<"H", "A", ",", "N", "A">>}}

ScriptJobs == JobsByRule \cup JobsByName \cup JobsBySegment \cup JobsByOption

(***************************************************************************)
(* The state.                                                              *)
(***************************************************************************)
VARIABLES
  variant,         \* which entry point runs: "script" (scripts/run_treesort.py)
                   \* or "package" (scripts/treesortrunner/run_treesort.py)
  raw,             \* the record as loaded from the job file
  job_data,        \* runner.job_data, the same object, as it is now
  pc,              \* the position of main
  stderr,          \* the failures written to stderr, in order
  input_filename,  \* runner.input_filename
  disk,            \* the files: path -> content
  fetch_cmd,       \* the argument list the p3-cp process was started with
  prepare_cmd,     \* the argument list of the dataset-preparation process
  treesort_cmd,    \* the argument list of the treesort process
  calls,           \* the outcomes of the calls of is_job_data_valid, in order
  fasta,           \* the text of the FASTA file being sanitized
  texts,           \* the texts the FASTA file has held, oldest first
  log,             \* the stages main has started, in order, each with the exit
                   \* of its external process and what the stage returned
  fasta_segments,  \* runner.fasta_segments
  current_segment, \* the values current_segment took, one per line of the
                   \* input file, during the latest split_fasta_by_segment
  returned         \* what each call of prepare_dataset, and the call of
                   \* split_fasta_by_segment inside it, returned, and the
                   \* files as the call left them, oldest first

\* The state of the splitter.
splitVars == <<fasta_segments, current_segment, returned>>

vars ==
  <<variant, raw, job_data, pc, stderr, input_filename, disk, fetch_cmd,
    prepare_cmd, treesort_cmd, calls, fasta, texts, log, fasta_segments,
    current_segment, returned>>

(***************************************************************************)
(* The command line of main and the files.                                 *)
(***************************************************************************)
\* --input-directory, --staging-directory, --work-directory
InputDirectory == <<"/", "i">>

StagingDirectory == <<"/", "s">>

WorkDirectory == <<"/", "w">>

\* f"{x}" for a value that is a str or None.
Format(x) == IF x = None THEN <<"N", "o", "n", "e">> ELSE x

\* f"{directory}/{name}"
PathJoin(directory, name) == Format(directory) \o <<"/">> \o Format(name)

NoFiles == [p \in {} |-> <<>>]

\* os.path.exists(path)
Exists(d, path) == path \in DOMAIN d

\* os.path.getsize(path)
GetSize(d, path) == Len(d[path])

\* WriteFile opening the file with "a": the text is added to what is there.
WriteFile_append(d, path, text) ==
  [q \in DOMAIN d \cup {path} |->
     IF q = path THEN (IF path \in DOMAIN d THEN d[path] ELSE <<>>) \o text ELSE d[q]]

\* open(path, "w").write(text)
WriteFile(d, path, text) ==
  [q \in DOMAIN d \cup {path} |-> IF q = path THEN text ELSE d[q]]

(***************************************************************************)
(* TreeSortRunner.__init__ of run_treesort.py.                             *)
(***************************************************************************)
init_runner(input_directory, jd, staging_directory, work_directory) ==
  IF Falsy(input_directory) \/ Len(input_directory) < 1
  THEN Invalid(Err("The input directory parameter is invalid", <<>>), jd)
  ELSE IF Falsy(staging_directory) \/ Len(staging_directory) < 1
  THEN Invalid(Err("The staging directory parameter is invalid", <<>>), jd)
  ELSE IF Falsy(work_directory) \/ Len(work_directory) < 1
  THEN Invalid(Err("The work directory parameter is invalid", <<>>), jd)
  ELSE is_job_data_valid(jd)

(***************************************************************************)
(* TreeSortRunner.prepare_input_file of run_treesort.py.  io is what the   *)
(* environment does: the exit of p3-cp ("zero", "nonzero", or "oserror"    *)
(* when the process cannot be started), the object it copies, and whether  *)
(* writing the input file succeeds.                                        *)
(***************************************************************************)
P3CP == <<"p", "3", "-", "c", "p">>

PrepareFailed(e, name, d, cmd) ==
  [ok |-> FALSE, err |-> e, input_filename |-> name, disk |-> d, fetch_cmd |-> cmd]

\* Validate the input filename and the input FASTA file.
check_input_file(name, d, cmd) ==
  IF Falsy(name)
  THEN PrepareFailed(Err("Invalid input filename (empty)", <<>>), name, d, cmd)
  ELSE IF ~Exists(d, name) \/ GetSize(d, name) = 0
  THEN PrepareFailed(Err("Input FASTA file is invalid or empty", <<>>), name, d, cmd)
  ELSE [ok |-> TRUE, err |-> NoErr, input_filename |-> name, disk |-> d,
        fetch_cmd |-> cmd]

prepare_input_file(jd, input_directory, old_name, d, io) ==
  LET input_source == safeTrim(jd.input_source)
      name == PathJoin(input_directory, INPUT_FASTA_FILE_NAME)
  IN  IF input_source = InputSource_FastaFileID
      THEN LET cmd == <<P3CP, WsPrefix \o Format(jd.input_fasta_file_id), name>>
           IN  IF io.fetch = "oserror"
               THEN PrepareFailed(Err("Error copying FASTA file from workspace", <<>>),
                                  name, d, cmd)
               ELSE check_input_file(
                      name,
                      IF io.fetch = "zero" THEN WriteFile(d, name, io.remote) ELSE d,
                      cmd)
      ELSE IF input_source = InputSource_FastaData
      THEN IF ~io.write
           THEN PrepareFailed(Err("Error copying FASTA data to input file", <<>>),
                              name, d, <<>>)
           ELSE check_input_file(name, WriteFile(d, name, Format(jd.input_fasta_data)),
                                 <<>>)
      ELSE PrepareFailed(Err("Invalid input source", input_source), old_name, d, <<>>)

(***************************************************************************)
(* The two command lines of run_treesort.py.                               *)
(***************************************************************************)
ScriptOption_CladesPath == <<"-", "-", "c", "l", "a", "d", "e", "s">>

ScriptOption_DescriptorPath == <<"-", "i">>

ScriptOption_EqualRates ==
  <<"-", "-", "e", "q", "u", "a", "l", "-", "r", "a", "t", "e", "s">>

ScriptOption_FastTree == <<"-", "-", "f", "a", "s", "t">>

ScriptOption_IsTimeScaled == <<"-", "-", "t", "i", "m", "e", "t", "r", "e", "e">>

ScriptOption_MatchOnEPI ==
  <<"-", "-", "m", "a", "t", "c", "h", "-", "o", "n", "-", "e", "p", "i">>

ScriptOption_MatchOnRegex ==
  <<"-", "-", "m", "a", "t", "c", "h", "-", "o", "n", "-", "r", "e", "g", "e", "x">>

ScriptOption_MatchOnStrain ==
  <<"-", "-", "m", "a", "t", "c", "h", "-", "o", "n", "-", "s", "t", "r", "a", "i", "n">>

ScriptOption_NoCollapse ==
  <<"-", "-", "n", "o", "-", "c", "o", "l", "l", "a", "p", "s", "e">>

ScriptOption_OutputPath == <<"-", "o">>

ScriptOption_Segments == <<"-", "-", "s", "e", "g", "m", "e", "n", "t", "s">>

PrepareDatasetScript ==
  <<"p", "r", "e", "p", "a", "r", "e", "_", "d", "a", "t", "a", "s", "e", "t", "_",
    "0", "5", "1", "6", "2", "5", ".", "s", "h">>

TreesortProgram == <<"t", "r", "e", "e", "s", "o", "r", "t">>

\* cmd of run_prepare_dataset
run_prepare_dataset_cmd(jd, name, work_directory) ==
  <<PrepareDatasetScript>>
  \o (IF ~Falsy(jd.ref_tree_inference) /\ jd.ref_tree_inference = TreeInference_FastTree
      THEN <<ScriptOption_FastTree>> ELSE <<>>)
  \o (IF ~Falsy(jd.segments) THEN <<ScriptOption_Segments, jd.segments>> ELSE <<>>)
  \o <<name>>
  \o (IF ~Falsy(jd.ref_segment) THEN <<jd.ref_segment>> ELSE <<>>)
  \o <<work_directory>>

\* tree_sort_cmd with each "match on" option tested by an `if` of its own.
tree_sort_cmd_independent_flags(jd, work_directory, staging_directory) ==
  LET clades_path == safeTrim(jd.clades_path)
  IN  <<TreesortProgram>>
      \o (IF Len(clades_path) > 0 THEN <<ScriptOption_CladesPath, clades_path>>
          ELSE <<>>)
      \o <<ScriptOption_DescriptorPath, PathJoin(work_directory, DESCRIPTOR_FILE_NAME)>>
      \o (IF jd.match_on_strain THEN <<ScriptOption_MatchOnStrain>> ELSE <<>>)
      \o (IF jd.match_on_epi THEN <<ScriptOption_MatchOnEPI>> ELSE <<>>)
      \o (IF ~Falsy(jd.match_on_regex)
          THEN <<ScriptOption_MatchOnRegex, jd.match_on_regex>> ELSE <<>>)
      \o (IF jd.no_collapse THEN <<ScriptOption_NoCollapse>> ELSE <<>>)
      \o <<ScriptOption_OutputPath, staging_directory>>
      \o (IF jd.equal_rates THEN <<ScriptOption_EqualRates>> ELSE <<>>)
      \o (IF jd.is_time_scaled THEN <<ScriptOption_IsTimeScaled>> ELSE <<>>)

\* tree_sort_cmd with the output path appended before the no-collapse option.
tree_sort_cmd_output_early(jd, work_directory, staging_directory) ==
  LET clades_path == safeTrim(jd.clades_path)
  IN  <<TreesortProgram>>
      \o (IF Len(clades_path) > 0 THEN <<ScriptOption_CladesPath, clades_path>>
          ELSE <<>>)
      \o <<ScriptOption_DescriptorPath, PathJoin(work_directory, DESCRIPTOR_FILE_NAME)>>
      \o (IF jd.match_on_strain THEN <<ScriptOption_MatchOnStrain>>
          ELSE IF jd.match_on_epi THEN <<ScriptOption_MatchOnEPI>>
          ELSE IF ~Falsy(jd.match_on_regex)
          THEN <<ScriptOption_MatchOnRegex, jd.match_on_regex>>
          ELSE <<>>)
      \o <<ScriptOption_OutputPath, staging_directory>>
      \o (IF jd.no_collapse THEN <<ScriptOption_NoCollapse>> ELSE <<>>)
      \o (IF jd.equal_rates THEN <<ScriptOption_EqualRates>> ELSE <<>>)
      \o (IF jd.is_time_scaled THEN <<ScriptOption_IsTimeScaled>> ELSE <<>>)

\* cmd of tree_sort
tree_sort_cmd(jd, work_directory, staging_directory) ==
  LET clades_path == safeTrim(jd.clades_path)
  IN  <<TreesortProgram>>
      \o (IF Len(clades_path) > 0 THEN <<ScriptOption_CladesPath, clades_path>>
          ELSE <<>>)
      \o <<ScriptOption_DescriptorPath, PathJoin(work_directory, DESCRIPTOR_FILE_NAME)>>
      \o (IF jd.match_on_strain THEN <<ScriptOption_MatchOnStrain>>
          ELSE IF jd.match_on_epi THEN <<ScriptOption_MatchOnEPI>>
          ELSE IF ~Falsy(jd.match_on_regex)
          THEN <<ScriptOption_MatchOnRegex, jd.match_on_regex>>
          ELSE <<>>)
      \o (IF jd.no_collapse THEN <<ScriptOption_NoCollapse>> ELSE <<>>)
      \o <<ScriptOption_OutputPath, staging_directory>>
      \o (IF jd.equal_rates THEN <<ScriptOption_EqualRates>> ELSE <<>>)
      \o (IF jd.is_time_scaled THEN <<ScriptOption_IsTimeScaled>> ELSE <<>>)

(***************************************************************************)
(* The package scripts/treesortrunner: its job records, its validation and *)
(* the sanitization of FASTA headers at the end of prepare_input_file.     *)
(***************************************************************************)
\* Characters to remove from FASTA headers: the class "[\\['\"(),;|:\\]]".
INVALID_FASTA_CHARS == {"[", "'", "\"", "(", ")", ",", ";", "|", ":", "]"}

\* [i.value for i in InputSource] of treesortrunner/common.py
PkgInputSource ==
  <<InputSource_FastaData, InputSource_FastaFile, InputSource_FastaFileID>>

BasePkgJob ==
  [clades_path |-> <<>>, descriptor_path |-> <<>>, deviation |-> 2,
   equal_rates |-> FALSE, inference_type |-> TreeInference_IQTree,
   input_fasta_data |-> SampleFasta, input_fasta_file |-> None,
   input_fasta_file_id |-> None, input_source |-> InputSource_FastaData,
   is_time_scaled |-> FALSE, match_on_epi |-> FALSE, match_on_regex |-> None,
   match_on_strain |-> FALSE, method |-> Method_MinCut, no_collapse |-> FALSE,
   output_path |-> OutPath, p_value |-> 0, ref_segment |-> DEFAULT_REF_SEGMENT,
   segments |-> None]

PkgJobs ==
  {[BasePkgJob EXCEPT !.input_source = src, !.input_fasta_data = data,
                      !.input_fasta_file = file, !.input_fasta_file_id = id,
                      !.method = m, !.output_path = out, !.ref_segment = ref,
                      !.segments = segs] :
     src \in {InputSource_FastaData, InputSource_FastaFile, InputSource_FastaFileID,
              InputSource_PreparedFiles, None},
     data \in {<<>>, SampleFasta},
     file \in {None, <<>>, <<"f">>},
     id \in {None, <<"x">>},
     m \in {Method_MinCut, Bogus},
     out \in {<<>>, OutPath},
     ref \in {DEFAULT_REF_SEGMENT, <<"X", "X">>, <<>>},
     segs \in {None, <<"X", "X">>}}

\* TreeSortRunner.is_job_data_valid of the package.
pkg_is_job_data_valid(jd) ==
  IF ~InList(jd.input_source, PkgInputSource)
  THEN Invalid(Err("job_data.input_source is not a valid input source", <<>>), jd)
  ELSE IF jd.input_source = InputSource_FastaData /\ Falsy(jd.input_fasta_data)
  THEN Invalid(Err("The input FASTA data is invalid", <<>>), jd)
  ELSE IF jd.input_source = InputSource_FastaFile /\ Falsy(jd.input_fasta_file)
  THEN Invalid(Err("The input FASTA file is invalid", <<>>), jd)
  ELSE IF jd.input_source = InputSource_FastaFileID /\ Falsy(jd.input_fasta_file_id)
  THEN Invalid(Err("The input FASTA file ID is invalid", <<>>), jd)
  ELSE IF check_method(jd) # NoErr THEN Invalid(check_method(jd), jd)
  ELSE IF check_output_path(jd) # NoErr THEN Invalid(check_output_path(jd), jd)
  ELSE IF check_ref_segment(jd) # NoErr THEN Invalid(check_ref_segment(jd), jd)
  ELSE IF check_segments(jd) # NoErr THEN Invalid(check_segments(jd), jd)
  ELSE [ok |-> TRUE, err |-> NoErr, job_data |-> jd]

\* TreeSortRunner.__init__ of the package.  It calls the method on the class,
\* TreeSortRunner.is_job_data_valid(), with no instance: Python raises
\* TypeError before the body of the method runs.
pkg_init_runner(jd, work_directory) ==
  IF Falsy(work_directory) \/ Len(work_directory) < 1
  THEN Invalid(Err("The work directory parameter is invalid", <<>>), jd)
  ELSE Invalid(Err("is_job_data_valid() missing 1 required positional argument", <<>>),
               jd)

\* The lines a text file yields when iterated: each keeps its newline.
RECURSIVE readlines(_)
readlines(text) ==
  IF text = <<>> THEN <<>>
  ELSE IF Positions(text, "\n") = {} THEN <<text>>
  ELSE LET i == Min(Positions(text, "\n"))
       IN  <<SubSeq(text, 1, i)>> \o readlines(SliceFrom(text, i))

\* remove_invalid_chars with the class of run_treesort.py, which has no "|".
remove_invalid_chars_no_pipe(line) ==
  SelectSeq(line, LAMBDA c : c \notin INVALID_FASTA_CHARS \ {"|"})

\* re.sub(INVALID_FASTA_CHARS, "", line)
remove_invalid_chars(line) == SelectSeq(line, LAMBDA c : c \notin INVALID_FASTA_CHARS)

\* re.sub(" ", "_", line)
spaces_to_underscores(line) == [i \in 1..Len(line) |-> IF line[i] = " " THEN "_" ELSE line[i]]

\* The body of the loop over the lines of the input file.
sanitize_line(line) ==
  IF startswith(line, <<">">>)
  THEN spaces_to_underscores(remove_invalid_chars(strip(line))) \o <<"\n">>
  ELSE line

RECURSIVE concat(_)
concat(parts) == IF parts = <<>> THEN <<>> ELSE Head(parts) \o concat(Tail(parts))

\* Remove invalid characters from FASTA headers: the text written back.
sanitize_fasta(text) ==
  LET lines == readlines(text)
  IN  concat([i \in 1..Len(lines) |-> sanitize_line(lines[i])])

(***************************************************************************)
(* main of run_treesort.py, and of the package's run_treesort.py.          *)
(***************************************************************************)
\* What the workspace may hold under a file id.
RemoteObjects == {<<>>, SampleFasta}

\* What the input directory may hold before the run.
InitialDisks ==
  {NoFiles, WriteFile(NoFiles, PathJoin(InputDirectory, INPUT_FASTA_FILE_NAME), StaleFasta)}

Untouched ==
  /\ stderr = <<>>
  /\ input_filename = None
  /\ fetch_cmd = <<>>
  /\ prepare_cmd = <<>>
  /\ treesort_cmd = <<>>
  /\ calls = <<>>
  /\ fasta = <<>>
  /\ texts = <<>>
  /\ log = <<>>
  /\ fasta_segments = <<>>
  /\ current_segment = <<>>
  /\ returned = <<>>

Init ==
  /\ \/ variant = "script" /\ raw \in ScriptJobs /\ disk \in InitialDisks
     \/ variant = "package" /\ raw \in PkgJobs /\ disk = NoFiles
  /\ job_data = raw
  /\ pc = "start"
  /\ Untouched

Outcome(r) == [ok |-> r.ok, err |-> r.err, job_data |-> r.job_data]

\* One entry of the log: the stage, the exit of the external process the
\* stage ran ("none" when it ran no process) and what the stage returned.
Stage(name, exit, ok) == [stage |-> name, exit |-> exit, ok |-> ok]

\* run_prepare_dataset and tree_sort with result_status set whatever the exit.
result_status_whatever_exit(exit) == TRUE

\* result = subprocess.call(cmd, shell=False); if result == 0: result_status = True
result_status(exit) == exit = "zero"

\* runner = TreeSortRunner(input_directory, job_data, staging_directory, work_directory)
Construct ==
  /\ pc = "start"
  /\ variant = "script"
  /\ LET r == init_runner(InputDirectory, job_data, StagingDirectory, WorkDirectory)
     IN  /\ job_data' = r.job_data
         /\ calls' = Append(calls, Outcome(r))
         /\ stderr' = IF r.ok THEN stderr
                      ELSE stderr \o <<r.err,
                                       Err("Unable to create an instance of TreeSortRunner", <<>>)>>
         /\ pc' = IF r.ok THEN "constructed" ELSE "exit_fail"
         /\ log' = Append(log, Stage("validate", "none", r.ok))
  /\ UNCHANGED <<variant, raw, input_filename, disk, fetch_cmd, prepare_cmd,
                 treesort_cmd, fasta, texts, splitVars>>

\* runner = TreeSortRunner(job_data, work_directory) of the package
PkgConstruct ==
  /\ pc = "start"
  /\ variant = "package"
  /\ LET r == pkg_init_runner(job_data, WorkDirectory)
     IN  /\ job_data' = r.job_data
         /\ stderr' = IF r.ok THEN stderr
                      ELSE stderr \o <<Err("Unable to create an instance of TreeSortRunner", r.err.arg)>>
         /\ pc' = IF r.ok THEN "constructed" ELSE "exit_fail"
         /\ log' = Append(log, Stage("validate", "none", r.ok))
  /\ UNCHANGED <<variant, raw, input_filename, disk, fetch_cmd, prepare_cmd,
                 treesort_cmd, calls, fasta, texts, splitVars>>

\* if runner.job_data.prepare_dataset: if not runner.prepare_input_file(): sys.exit(-1)
PrepareInputFile ==
  /\ pc = "constructed"
  /\ variant = "script"
  /\ job_data.prepare_dataset
  /\ \E f \in {"zero", "nonzero", "oserror"}, o \in RemoteObjects, w \in BOOLEAN :
       LET r == prepare_input_file(job_data, InputDirectory, input_filename, disk,
                                   [fetch |-> f, remote |-> o, write |-> w])
       IN  /\ input_filename' = r.input_filename
           /\ disk' = r.disk
           /\ fetch_cmd' = r.fetch_cmd
           /\ stderr' = IF r.ok THEN stderr
                        ELSE stderr \o <<r.err,
                                         Err("An error occurred in prepare_input_file", <<>>)>>
           /\ pc' = IF r.ok THEN "input_ready" ELSE "exit_fail"
           /\ log' = Append(log, Stage("resolve",
                                       IF r.fetch_cmd = <<>> THEN "none" ELSE f, r.ok))
  /\ UNCHANGED <<variant, raw, job_data, prepare_cmd, treesort_cmd, calls, fasta, texts,
                 splitVars>>

\* if not runner.run_prepare_dataset(): sys.exit(-1)
\* subprocess.call returns the exit status; it raises OSError, which no
\* handler of the script catches, when the program cannot be started.
RunPrepareDataset ==
  /\ pc = "input_ready"
  /\ prepare_cmd' = run_prepare_dataset_cmd(job_data, input_filename, WorkDirectory)
  /\ \E exit \in {"zero", "nonzero", "oserror"} :
       /\ pc' = IF exit = "oserror" THEN "uncaught"
                ELSE IF result_status(exit) THEN "prepared" ELSE "exit_fail"
       /\ stderr' = IF exit # "oserror" /\ ~result_status(exit)
                    THEN Append(stderr, Err("An error occurred in prepare_dataset", <<>>))
                    ELSE stderr
       /\ log' = Append(log, Stage("prepare", exit,
                                   exit # "oserror" /\ result_status(exit)))
  /\ UNCHANGED <<variant, raw, job_data, input_filename, disk, fetch_cmd, treesort_cmd,
                 calls, fasta, texts, splitVars>>

\* if not runner.tree_sort(): sys.exit(-1)
TreeSort ==
  /\ \/ pc = "prepared"
     \/ pc = "constructed" /\ ~job_data.prepare_dataset
  /\ variant = "script"
  /\ treesort_cmd' = tree_sort_cmd(job_data, WorkDirectory, StagingDirectory)
  /\ \E exit \in {"zero", "nonzero", "oserror"} :
       /\ pc' = IF exit = "oserror" THEN "uncaught"
                ELSE IF result_status(exit) THEN "done" ELSE "exit_fail"
       /\ stderr' = IF exit # "oserror" /\ ~result_status(exit)
                    THEN Append(stderr, Err("An error occurred in tree_sort", <<>>))
                    ELSE stderr
       /\ log' = Append(log, Stage("detect", exit,
                                   exit # "oserror" /\ result_status(exit)))
  /\ UNCHANGED <<variant, raw, job_data, input_filename, disk, fetch_cmd, prepare_cmd,
                 calls, fasta, texts, splitVars>>

Next == Construct \/ PkgConstruct \/ PrepareInputFile \/ RunPrepareDataset \/ TreeSort

Spec == Init /\ [][Next]_vars

(***************************************************************************)
(* is_job_data_valid applied, again and again, to one record.              *)
(***************************************************************************)
InitValidate ==
  /\ variant = "script"
  /\ raw \in ScriptJobs
  /\ disk = NoFiles
  /\ job_data = raw
  /\ pc = "validate"
  /\ Untouched

\* runner.is_job_data_valid()
Validate ==
  /\ pc = "validate"
  /\ Len(calls) < MaxCalls
  /\ LET r == is_job_data_valid(job_data)
     IN  /\ job_data' = r.job_data
         /\ calls' = Append(calls, Outcome(r))
         /\ stderr' = IF r.ok THEN stderr ELSE Append(stderr, r.err)
  /\ UNCHANGED <<variant, raw, pc, input_filename, disk, fetch_cmd, prepare_cmd,
                 treesort_cmd, fasta, texts, log, splitVars>>

NextValidate == Validate

SpecValidate == InitValidate /\ [][NextValidate]_vars

(***************************************************************************)
(* The sanitization pass of the package's prepare_input_file applied,      *)
(* again and again, to one FASTA file.                                     *)
(***************************************************************************)
FastaAlphabet == {">", "a", " ", "\t", "|", "\n"}

ExampleHeader ==
  <<">", "s", "t", "r", "a", "i", "n", " ", "A", ",", "(", "B", ")", ";",
    "t", "e", "s", "t", "|", "H", "A", "|">>

FastaTexts ==
  UNION {[1..n -> FastaAlphabet] : n \in 0..MaxLen}
  \cup {ExampleHeader, ExampleHeader \o <<"\n">>, SampleFasta}

InitSanitize ==
  /\ variant = "package"
  /\ raw = BasePkgJob
  /\ job_data = raw
  /\ disk = NoFiles
  /\ pc = "sanitize"
  /\ stderr = <<>>
  /\ input_filename = None
  /\ fetch_cmd = <<>>
  /\ prepare_cmd = <<>>
  /\ treesort_cmd = <<>>
  /\ calls = <<>>
  /\ fasta \in FastaTexts
  /\ texts = <<fasta>>
  /\ log = <<>>
  /\ fasta_segments = <<>>
  /\ current_segment = <<>>
  /\ returned = <<>>

\* with open(self.input_filename, 'r+') as f: ... f.seek(0); f.write(data); f.truncate()
Sanitize ==
  /\ pc = "sanitize"
  /\ Len(texts) <= MaxPasses
  /\ fasta' = sanitize_fasta(fasta)
  /\ texts' = Append(texts, fasta')
  /\ UNCHANGED <<variant, raw, job_data, pc, stderr, input_filename, disk, fetch_cmd,
                 prepare_cmd, treesort_cmd, calls, log, splitVars>>

NextSanitize == Sanitize

SpecSanitize == InitSanitize /\ [][NextSanitize]_vars

(***************************************************************************)
(* TreeSortRunner.get_segment_from_header and split_fasta_by_segment of    *)
(* run_treesort.py, and prepare_dataset, which calls the splitter.         *)
(***************************************************************************)
LowerCase ==
  <<"a", "b", "c", "d", "e", "f", "g", "h", "i", "j", "k", "l", "m",
    "n", "o", "p", "q", "r", "s", "t", "u", "v", "w", "x", "y", "z">>

UpperCase ==
  <<"A", "B", "C", "D", "E", "F", "G", "H", "I", "J", "K", "L", "M",
    "N", "O", "P", "Q", "R", "S", "T", "U", "V", "W", "X", "Y", "Z">>

\* The upper-case letter of each lower-case letter.
UpperOf ==
  [c \in {LowerCase[k] : k \in 1..Len(LowerCase)} |->
     UpperCase[CHOOSE k \in 1..Len(LowerCase) : LowerCase[k] = c]]

\* re.IGNORECASE: the letter a character is compared as.
IGNORECASE(c) == IF c \in DOMAIN UpperOf THEN UpperOf[c] ELSE c

\* re.search without re.IGNORECASE.
search_case_sensitive(pattern, string) ==
  \E i \in 1..(Len(string) - Len(pattern) + 1) :
    \A j \in 1..Len(pattern) : string[i + j - 1] = pattern[j]

\* re.search(pattern, string, re.IGNORECASE) for a pattern of literal characters.
search(pattern, string) ==
  \E i \in 1..(Len(string) - Len(pattern) + 1) :
    \A j \in 1..Len(pattern) : IGNORECASE(string[i + j - 1]) = IGNORECASE(pattern[j])

\* Find the segment name in a FASTA header.
get_segment_from_header(header) ==
  LET found == {k \in 1..Len(VALID_SEGMENTS) :
                  search(<<"|">> \o VALID_SEGMENTS[k] \o <<"|">>, header)}
  IN  IF found = {} THEN None ELSE VALID_SEGMENTS[Min(found)]

\* f"{self.work_directory}/{segment}-{INPUT_FASTA_FILE_NAME}"
SegmentFile(work_directory, segment) ==
  PathJoin(work_directory, segment \o <<"-">> \o INPUT_FASTA_FILE_NAME)

\* The dict fasta_by_segment, as its items in insertion order:
\* fasta_by_segment[segment] += line, or = line for a new key.
add_line(fasta_by_segment, segment, line) ==
  IF \E k \in 1..Len(fasta_by_segment) : fasta_by_segment[k].segment = segment
  THEN [k \in 1..Len(fasta_by_segment) |->
          IF fasta_by_segment[k].segment = segment
          THEN [fasta_by_segment[k] EXCEPT !.fasta = @ \o line]
          ELSE fasta_by_segment[k]]
  ELSE Append(fasta_by_segment, [segment |-> segment, fasta |-> line])

\* remember_segment without the test `not current_segment in self.fasta_segments`.
remember_segment_always(segments, segment) == Append(segments, segment)

\* Update the list of FASTA segments we have encountered.
remember_segment(segments, segment) ==
  IF ~InList(segment, segments) THEN Append(segments, segment) ELSE segments

\* The body of the loop over the lines of the input file.  seen is the list
\* of the values current_segment has taken, one per line.
split_line(s, line) ==
  LET is_header == startswith(line, <<">">>)
      header    == strip(line)
      current   == IF is_header THEN get_segment_from_header(header)
                   ELSE s.current_segment
      text      == IF is_header THEN header ELSE line
  IN  IF Falsy(current)
      THEN [s EXCEPT !.current_segment = current, !.seen = Append(@, current)]
      ELSE [current_segment  |-> current,
            seen             |-> Append(s.seen, current),
            fasta_segments   |-> remember_segment(s.fasta_segments, current),
            fasta_by_segment |-> add_line(s.fasta_by_segment, current,
                                          text \o <<"\n">>)]

\* for line in f: ...
RECURSIVE split_lines(_, _)
split_lines(s, lines) ==
  IF lines = <<>> THEN s ELSE split_lines(split_line(s, Head(lines)), Tail(lines))

\* Write the contents of fasta_by_segment to new FASTA files.  failing is the
\* number of the open(..., "w") that raises, counted from the next one; none
\* raises when it is not positive.
RECURSIVE write_segments(_, _, _, _)
write_segments(fasta_by_segment, d, work_directory, failing) ==
  IF fasta_by_segment = <<>> THEN [ok |-> TRUE, err |-> NoErr, disk |-> d]
  ELSE LET segment == Head(fasta_by_segment).segment
           text    == Head(fasta_by_segment).fasta
       IN  IF Falsy(text) \/ Len(text) < 1
           THEN write_segments(Tail(fasta_by_segment), d, work_directory, failing)
           ELSE IF failing = 1
           THEN [ok |-> FALSE, err |-> Err("Error creating FASTA file for", segment),
                 disk |-> d]
           ELSE write_segments(Tail(fasta_by_segment),
                               WriteFile(d, SegmentFile(work_directory, segment), text),
                               work_directory, failing - 1)

\* The items of fasta_by_segment once the input file has been read.
read_segments(name, d, segments) ==
  split_lines([current_segment |-> None, seen |-> <<>>, fasta_segments |-> segments,
               fasta_by_segment |-> <<>>],
              readlines(d[name]))

\* Split a FASTA file containing sequences for multiple segments into
\* individual files for each segment found in the FASTA headers.  The call
\* raises when the input file cannot be opened: input_filename is not set
\* before prepare_input_file, and the file may not be there.
split_fasta_by_segment(name, d, work_directory, segments, failing) ==
  IF Falsy(name) \/ ~Exists(d, name)
  THEN [raised |-> TRUE, ok |-> FALSE, err |-> Err("Error preparing dataset", <<>>),
        disk |-> d, fasta_segments |-> segments, seen |-> <<>>]
  ELSE LET s == read_segments(name, d, segments)
           w == write_segments(s.fasta_by_segment, d, work_directory, failing)
       IN  [raised |-> FALSE, ok |-> w.ok, err |-> w.err, disk |-> w.disk,
            fasta_segments |-> s.fasta_segments, seen |-> s.seen]

\* The number of files a call of the splitter opens for writing.
writes(name, d) ==
  IF Falsy(name) \/ ~Exists(d, name) THEN 0
  ELSE Len(read_segments(name, d, <<>>).fasta_by_segment)

\* prepare_dataset: result_status is True unless the splitter raised; what
\* the splitter returned is not looked at.
prepare_dataset(name, d, work_directory, segments, failing) ==
  LET r == split_fasta_by_segment(name, d, work_directory, segments, failing)
  IN  [result_status |-> ~r.raised, split |-> r]

(***************************************************************************)
(* A runner whose inline FASTA data is written by prepare_input_file and   *)
(* then split by prepare_dataset, once or again.  Between the two the      *)
(* headers of the input file may be sanitized by the pass of the package.  *)
(***************************************************************************)
HeaderTokens == {<<>>, <<"x">>, <<"H", "A">>, <<"h", "a">>, <<"N", "A">>}

\* Headers of up to MaxTokens tokens separated by "|".
HeaderLines ==
  {<<">">> \o join(l, <<"|">>) :
     l \in UNION {[1..n -> HeaderTokens] : n \in 1..MaxTokens}}

RecordLines ==
  {<<">", "a", "|", "H", "A", "|">>, <<">", "b", "|", "N", "A", "|">>, <<">", "c">>,
   <<"A">>, <<">", "d", "|", "h", "a", "|", " ">>}

\* Files of up to MaxLines lines, the last one with or without its newline.
RecordTexts ==
  LET ended == {concat([i \in 1..Len(l) |-> l[i] \o <<"\n">>]) :
                  l \in UNION {[1..n -> RecordLines] : n \in 1..MaxLines}}
  IN  ended \cup {SubSeq(t, 1, Len(t) - 1) : t \in ended}

ExamplePayload ==
  <<">", "s", "e", "q", "1", "|", "H", "A", "|", "\n", "A", "C", "G", "T", "\n",
    ">", "s", "e", "q", "2", "|", "N", "A", "|", "\n", "T", "T", "G", "G", "\n">>

SplitTexts == {h \o <<"\n">> : h \in HeaderLines} \cup RecordTexts \cup {ExamplePayload}

InitSplit ==
  /\ variant = "script"
  /\ raw \in {[BaseJob EXCEPT !.input_fasta_data = t] : t \in SplitTexts}
  /\ job_data = raw
  /\ disk = NoFiles
  /\ pc = "resolve"
  /\ Untouched

\* runner.prepare_input_file() for inline FASTA data
Resolve ==
  /\ pc = "resolve"
  /\ \E w \in BOOLEAN :
       LET r == prepare_input_file(job_data, InputDirectory, input_filename, disk,
                                   [fetch |-> "zero", remote |-> <<>>, write |-> w])
       IN  /\ input_filename' = r.input_filename
           /\ disk' = r.disk
           /\ stderr' = IF r.ok THEN stderr ELSE Append(stderr, r.err)
           /\ texts' = IF r.ok THEN <<r.disk[r.input_filename]>> ELSE texts
           /\ pc' = IF r.ok THEN "split" ELSE "exit_fail"
  /\ UNCHANGED <<variant, raw, job_data, fetch_cmd, prepare_cmd, treesort_cmd, calls,
                 fasta, log, splitVars>>

\* Remove invalid characters from FASTA headers: the pass at the end of the
\* package's prepare_input_file, over the input file, before any split.
SanitizeInput ==
  /\ pc = "split"
  /\ returned = <<>>
  /\ Len(texts) = 1
  /\ disk' = WriteFile(disk, input_filename, sanitize_fasta(disk[input_filename]))
  /\ texts' = Append(texts, disk'[input_filename])
  /\ UNCHANGED <<variant, raw, job_data, pc, stderr, input_filename, fetch_cmd,
                 prepare_cmd, treesort_cmd, calls, fasta, log, splitVars>>

\* runner.prepare_dataset()
PrepareDataset ==
  /\ pc \in {"resolve", "split"}
  /\ Len(returned) < MaxSplits
  /\ \E failing \in 0..writes(input_filename, disk) :
       \E r \in {prepare_dataset(input_filename, disk, WorkDirectory, fasta_segments,
                                 failing)} :
           /\ disk' = r.split.disk
           /\ fasta_segments' = r.split.fasta_segments
           /\ current_segment' = r.split.seen
           /\ stderr' = IF r.split.ok THEN stderr ELSE Append(stderr, r.split.err)
           /\ returned' = Append(returned, [raised |-> r.split.raised,
                                            split |-> r.split.ok,
                                            prepare_dataset |-> r.result_status,
                                            disk |-> r.split.disk])
  /\ UNCHANGED <<variant, raw, job_data, pc, input_filename, fetch_cmd, prepare_cmd,
                 treesort_cmd, calls, fasta, texts, log>>

NextSplit == Resolve \/ SanitizeInput \/ PrepareDataset

SpecSplit == InitSplit /\ [][NextSplit]_vars

(***************************************************************************)
(* Properties.                                                             *)
(***************************************************************************)
\* The script's constructor has run is_job_data_valid on the record.
Validated == variant = "script" /\ pc # "start" /\ Len(calls) >= 1

\* ... and the record was accepted.
Accepted == Validated /\ calls[1].ok

ValidCodes == {VALID_SEGMENTS[i] : i \in 1..Len(VALID_SEGMENTS)}

\* The field the chosen input source needs is null or empty.  The script's
\* records have no field for a local file at all.
MissingRequiredField(r) ==
  \/ r.input_source = InputSource_FastaData /\ Falsy(r.input_fasta_data)
  \/ r.input_source = InputSource_FastaFileID /\ Falsy(r.input_fasta_file_id)
  \/ /\ r.input_source = InputSource_FastaFile
     /\ variant = "package" => Falsy(r.input_fasta_file)

\* C1: when the field required by the chosen input source is absent or empty,
\* validation fails, the constructor raises and main exits without a runner:
\* no later stage of main is ever entered.
C1_MissingFieldRejected ==
  (pc # "start" /\ MissingRequiredField(raw)) =>
    /\ pc = "exit_fail"
    /\ stderr # <<>>
    /\ variant = "script" => Len(calls) = 1 /\ ~calls[1].ok
    /\ variant = "package" => ~pkg_is_job_data_valid(raw).ok

C1_Witness ==
  /\ pc = "exit_fail"
  /\ variant = "script"
  /\ raw.input_source = InputSource_FastaFileID
  /\ raw.input_fasta_file_id = <<>>
  /\ raw.prepare_dataset
  /\ calls[1].err.msg = "The input FASTA file ID is invalid"

\* The rules checked before the reference segment all pass.
EarlierRulesPass(r) ==
  /\ check_input_source(r) = NoErr
  /\ check_fasta_data(r) = NoErr
  /\ check_prepare_dataset(r) = NoErr
  /\ check_method(r) = NoErr
  /\ check_output_path(r) = NoErr

\* The entries of a comma-separated string, none for a null or empty one.
EntriesOf(text) == IF Falsy(text) THEN <<>> ELSE split(text, ",")

\* The entries of the segments string as supplied, none for a null, empty
\* or blank one.
SuppliedEntries(text) == IF safeTrim(text) = <<>> THEN <<>> ELSE split(text, ",")

\* C2 as claimed: whenever the reference segment supplied (one that is not
\* null, empty or blank), or an entry of the segments string supplied, of an
\* otherwise valid record is not one of the eight codes, validation fails
\* with an invalid-segment failure naming exactly that value.
C2_AnyNonCodeRejected ==
  (Validated /\ EarlierRulesPass(raw)) =>
    LET entries == SuppliedEntries(raw.segments)
        offending == {i \in 1..Len(entries) : entries[i] \notin ValidCodes}
        refOffends == safeTrim(raw.ref_segment) # <<>> /\ raw.ref_segment \notin ValidCodes
    IN  /\ refOffends =>
             /\ ~calls[1].ok
             /\ calls[1].err = Err("Invalid reference segment", raw.ref_segment)
        /\ (~refOffends /\ offending # {}) =>
             /\ ~calls[1].ok
             /\ calls[1].err.msg = "Invalid segment"
             /\ \E i \in offending : calls[1].err.arg = entries[i]

\* C2 as amended: the values are compared after trimming the surrounding
\* whitespace of the whole string; a reference segment that is then empty is
\* not rejected; a non-empty one that is no code fails naming the trimmed
\* value; otherwise the first entry of a non-empty trimmed segments string
\* that is no code fails naming exactly that entry.
C2_InvalidSegmentNamed ==
  (Validated /\ EarlierRulesPass(raw)) =>
    LET ref == safeTrim(raw.ref_segment)
        entries == EntriesOf(safeTrim(raw.segments))
        offending == {i \in 1..Len(entries) : entries[i] \notin ValidCodes}
    IN  /\ (ref # <<>> /\ ref \notin ValidCodes) =>
             ~calls[1].ok /\ calls[1].err = Err("Invalid reference segment", ref)
        /\ ((ref = <<>> \/ ref \in ValidCodes) /\ offending # {}) =>
             /\ ~calls[1].ok
             /\ calls[1].err = Err("Invalid segment", entries[Min(offending)])
        /\ ((ref = <<>> \/ ref \in ValidCodes) /\ offending = {}) => calls[1].ok

C2_Witness ==
  /\ Validated
  /\ ~calls[1].ok
  /\ raw.ref_segment = <<" ", "H", "A">>
  /\ raw.segments = <<"H", "A", ",", "X", "X">>
  /\ calls[1].err = Err("Invalid segment", <<"X", "X">>)

\* C3: after a successful validation the reference segment the runner holds
\* is one of the eight codes, and is the default HA when the value supplied
\* was null, empty or blank.
C3_RefSegmentIsACode ==
  Accepted =>
    /\ job_data.ref_segment \in ValidCodes
    /\ safeTrim(raw.ref_segment) = <<>> => job_data.ref_segment = DEFAULT_REF_SEGMENT

\* The six rules, in the order claimed, each as a condition on the record.
RuleViolated(k, r) ==
  CASE k = 1 -> \/ r.input_source \notin {InputSource_FastaData, InputSource_FastaFileID,
                                          InputSource_PreparedFiles}
                \/ r.input_source = InputSource_FastaData /\ Falsy(r.input_fasta_data)
    [] k = 2 -> IF r.prepare_dataset
                THEN r.input_source = InputSource_FastaFileID
                     /\ Falsy(r.input_fasta_file_id)
                ELSE r.input_source # InputSource_PreparedFiles
                     \/ Falsy(r.input_existing_directory)
    [] k = 3 -> r.method \notin {Method_Local, Method_MinCut}
    [] k = 4 -> Falsy(r.output_path)
    [] k = 5 -> safeTrim(r.ref_segment) \notin ValidCodes \cup {<<>>}
    [] k = 6 -> \E i \in 1..Len(EntriesOf(safeTrim(r.segments))) :
                  EntriesOf(safeTrim(r.segments))[i] \notin ValidCodes

\* The rule a failure message belongs to.
RuleOf(msg) ==
  CASE msg \in {"job_data.input_source is not a valid input source",
                "The input FASTA data is invalid"} -> 1
    [] msg \in {"The input FASTA file ID is invalid", "The input source is invalid",
                "An existing directory of prepared files is required"} -> 2
    [] msg = "job_data.method is not a valid method" -> 3
    [] msg = "The output path is invalid" -> 4
    [] msg = "Invalid reference segment" -> 5
    [] msg = "Invalid segment" -> 6
    [] OTHER -> 0

\* C4: the failure validation reports is the one of the earliest violated
\* rule, and it is the only validation failure written.
C4_EarliestRuleReported ==
  Validated =>
    LET violated == {k \in 1..6 : RuleViolated(k, raw)}
    IN  IF violated = {} THEN calls[1].ok
        ELSE /\ ~calls[1].ok
             /\ RuleOf(calls[1].err.msg) = Min(violated)
             /\ Cardinality({i \in 1..Len(stderr) : RuleOf(stderr[i].msg) # 0}) = 1
             /\ stderr[1] = calls[1].err

C4_Witness ==
  /\ Validated
  /\ RuleViolated(3, raw) /\ RuleViolated(4, raw) /\ RuleViolated(5, raw)
  /\ RuleViolated(6, raw)
  /\ ~RuleViolated(1, raw) /\ ~RuleViolated(2, raw)
  /\ calls[1].err.msg = "job_data.method is not a valid method"

\* The record a call of is_job_data_valid was given.
GivenTo(i) == IF i = 1 THEN raw ELSE calls[i - 1].job_data

\* C5: a failing validation leaves the record it was given unchanged, and
\* every further validation of the record has the outcome, and leaves the
\* field values, of the first.
C5_ValidateLeavesRecordAlone ==
  \A i \in 1..Len(calls) :
    /\ ~calls[i].ok => calls[i].job_data = GivenTo(i)
    /\ calls[i].ok = calls[1].ok
    /\ calls[i].job_data = calls[1].job_data

\* A remote file id was accepted.
RemoteIdAccepted == Accepted /\ raw.input_source = InputSource_FastaFileID

\* The stored id is the raw id less exactly one leading "ws:", if it has one.
StoredIdIsRawLessOneMarker ==
  IF startswith(raw.input_fasta_file_id, WsPrefix)
  THEN WsPrefix \o job_data.input_fasta_file_id = raw.input_fasta_file_id
  ELSE job_data.input_fasta_file_id = raw.input_fasta_file_id

\* C6 as claimed: the stored id is the raw id less one leading "ws:", and the
\* id handed to p3-cp is the stored id, with no marker put back.
C6_FetchGetsStoredId ==
  RemoteIdAccepted =>
    /\ StoredIdIsRawLessOneMarker
    /\ fetch_cmd # <<>> => fetch_cmd[2] = job_data.input_fasta_file_id

\* C6 as amended: the stored id is the raw id less one leading "ws:", and the
\* id handed to p3-cp is the stored id with one "ws:" put in front of it.
C6_FetchGetsMarkedStoredId ==
  RemoteIdAccepted =>
    /\ StoredIdIsRawLessOneMarker
    /\ fetch_cmd # <<>> =>
         /\ fetch_cmd[2] = WsPrefix \o job_data.input_fasta_file_id
         /\ fetch_cmd[1] = P3CP
         /\ fetch_cmd[3] = input_filename
    /\ pc \in {"input_ready", "prepared", "done"} => fetch_cmd # <<>>

C6_Witness ==
  /\ RemoteIdAccepted
  /\ raw.input_fasta_file_id = WsPrefix \o WsPrefix \o <<"x">>
  /\ job_data.input_fasta_file_id = WsPrefix \o <<"x">>
  /\ fetch_cmd # <<>>
  /\ pc = "input_ready"

\* C7: a record is accepted only if its input source, its method and its
\* inference type are each one of the known values.
C7_UnknownEnumRejected ==
  Accepted =>
    /\ InList(raw.input_source, InputSource)
    /\ InList(raw.method, Method)
    /\ InList(raw.ref_tree_inference, TreeInference)

\* C8: an accepted record without dataset preparation has a non-empty
\* existing directory, and one with dataset preparation has an input source
\* prepare_input_file can materialize, so that it never fails with "Invalid
\* input source".
C8_ConsistentWithPrepareFlag ==
  Accepted =>
    /\ ~job_data.prepare_dataset => ~Falsy(job_data.input_existing_directory)
    /\ job_data.prepare_dataset =>
         job_data.input_source \in {InputSource_FastaData, InputSource_FastaFileID}
    /\ \A i \in 1..Len(stderr) : stderr[i].msg # "Invalid input source"

\* C9: a second sanitization pass writes the text the first pass wrote.
C9_SanitizeIdempotent == Len(texts) >= 3 => texts[3] = texts[2]

ClaimedSanitizedExample ==
  <<">", "s", "t", "r", "a", "i", "n", "A", "_", "B", "t", "e", "s", "t", "H", "A">>

SanitizedExample ==
  <<">", "s", "t", "r", "a", "i", "n", "_", "A", "B", "t", "e", "s", "t", "H", "A">>

\* C10 as claimed: the header ">strain A,(B);test|HA|" sanitizes to
\* ">strainA_BtestHA" (with or without the newline the pass ends a header by).
C10_ExampleAsClaimed ==
  (Len(texts) >= 2 /\ texts[1] \in {ExampleHeader, ExampleHeader \o <<"\n">>}) =>
    texts[2] \in {ClaimedSanitizedExample, ClaimedSanitizedExample \o <<"\n">>}

\* C10 as amended: the header ">strain A,(B);test|HA|" sanitizes to
\* ">strain_ABtestHA", ended by a newline.
C10_ExampleSanitized ==
  (Len(texts) >= 2 /\ texts[1] \in {ExampleHeader, ExampleHeader \o <<"\n">>}) =>
    texts[2] = SanitizedExample \o <<"\n">>

C10_Witness == Len(texts) = 2 /\ texts[1] = ExampleHeader /\ fasta = texts[2]

\* C11: whenever the fetch of a remote id fails (p3-cp exits non-zero or
\* cannot be run), prepare_input_file reports failure, whatever file was at
\* the destination before.
C11_FetchFailureFailsResolve ==
  \A i \in 1..Len(log) :
    (log[i].stage = "resolve" /\ log[i].exit \in {"nonzero", "oserror"}) => ~log[i].ok

MatchFlags ==
  {ScriptOption_MatchOnStrain, ScriptOption_MatchOnEPI, ScriptOption_MatchOnRegex}

\* The positions of a command line holding one of the given tokens.
TokensAt(cmd, tokens) == {i \in 1..Len(cmd) : cmd[i] \in tokens}

\* C15: the treesort command line holds at most one of --match-on-strain,
\* --match-on-epi and --match-on-regex: strain when match_on_strain is set,
\* else epi when match_on_epi is set, else regex followed by its pattern when
\* a pattern is set, else none.
C15_OneMatchMode ==
  treesort_cmd # <<>> =>
    LET at == TokensAt(treesort_cmd, MatchFlags)
        chosen == IF job_data.match_on_strain THEN <<ScriptOption_MatchOnStrain>>
                  ELSE IF job_data.match_on_epi THEN <<ScriptOption_MatchOnEPI>>
                  ELSE IF job_data.match_on_regex \notin {None, <<>>}
                  THEN <<ScriptOption_MatchOnRegex, job_data.match_on_regex>>
                  ELSE <<>>
    IN  /\ Cardinality(at) <= 1
        /\ chosen = <<>> => at = {}
        /\ chosen # <<>> =>
             \E i \in at : SubSeq(treesort_cmd, i, i + Len(chosen) - 1) = chosen

C15_Witness ==
  /\ job_data.match_on_strain /\ job_data.match_on_epi
  /\ job_data.match_on_regex = <<".", "*">>
  /\ treesort_cmd # <<>>
  /\ TokensAt(treesort_cmd, MatchFlags) = {4}
  /\ treesort_cmd[4] = ScriptOption_MatchOnStrain

\* C16: the command line of the dataset preparation ends with the input
\* path, the reference segment code and the work directory, in this order;
\* before them come only --fast (for FastTree) and then --segments with the
\* comma-joined codes (when segments are given).
C16_ThreePositionals ==
  prepare_cmd # <<>> =>
    LET n == Len(prepare_cmd)
        codes == EntriesOf(safeTrim(raw.segments))
        fast == IF raw.ref_tree_inference = TreeInference_FastTree
                THEN <<ScriptOption_FastTree>> ELSE <<>>
        segs == IF codes # <<>> THEN <<ScriptOption_Segments, join(codes, <<",">>)>>
                ELSE <<>>
    IN  /\ n >= 4
        /\ prepare_cmd[n - 2] = input_filename
        /\ prepare_cmd[n - 1] \in ValidCodes
        /\ prepare_cmd[n] = WorkDirectory
        /\ SubSeq(prepare_cmd, 2, n - 3) = fast \o segs

\* The options of treesort in the order claimed, and those followed by a value.
DetectFlags ==
  <<ScriptOption_CladesPath, ScriptOption_DescriptorPath, ScriptOption_MatchOnStrain,
    ScriptOption_MatchOnEPI, ScriptOption_MatchOnRegex, ScriptOption_NoCollapse,
    ScriptOption_OutputPath, ScriptOption_EqualRates, ScriptOption_IsTimeScaled>>

FlagsWithValue ==
  {ScriptOption_CladesPath, ScriptOption_DescriptorPath, ScriptOption_MatchOnRegex,
   ScriptOption_OutputPath}

Rank(token) == CHOOSE k \in 1..Len(DetectFlags) : DetectFlags[k] = token

\* C17: the treesort command line holds the descriptor option followed by
\* descriptor.csv inside the work directory, and the output option followed
\* by the output location, each exactly once, and its options come in the
\* order clades, descriptor, match mode, no-collapse, output, equal-rates,
\* timetree.
C17_DetectOrder ==
  treesort_cmd # <<>> =>
    LET flags == {DetectFlags[k] : k \in 1..Len(DetectFlags)}
        at == TokensAt(treesort_cmd, flags)
    IN  /\ treesort_cmd[1] = TreesortProgram
        /\ \A i, j \in at : i < j => Rank(treesort_cmd[i]) < Rank(treesort_cmd[j])
        /\ \A i \in 2..Len(treesort_cmd) :
             i \notin at => (i - 1 \in at /\ treesort_cmd[i - 1] \in FlagsWithValue)
        /\ \E i \in at :
             /\ treesort_cmd[i] = ScriptOption_DescriptorPath
             /\ i < Len(treesort_cmd)
             /\ treesort_cmd[i + 1] = PathJoin(WorkDirectory, DESCRIPTOR_FILE_NAME)
        /\ \E i \in at :
             /\ treesort_cmd[i] = ScriptOption_OutputPath
             /\ i < Len(treesort_cmd)
             /\ treesort_cmd[i + 1] = StagingDirectory

C17_Witness ==
  /\ Len(treesort_cmd) = 11
  /\ treesort_cmd[2] = ScriptOption_CladesPath
  /\ treesort_cmd[6] = ScriptOption_MatchOnEPI
  /\ treesort_cmd[7] = ScriptOption_NoCollapse
  /\ treesort_cmd[11] = ScriptOption_IsTimeScaled

StageRank(name) ==
  CASE name = "validate" -> 1
    [] name = "resolve" -> 2
    [] name = "prepare" -> 3
    [] name = "detect" -> 4

\* Stage i of the log was preceded by a stage of the given name that succeeded.
Preceded(i, name) == \E j \in 1..(i - 1) : log[j].stage = name /\ log[j].ok

\* C18: treesort is started only after a successful validation and, when
\* prepare_dataset is set, only after prepare_input_file succeeded and the
\* dataset preparation exited with status 0; a stage that fails is the last
\* stage started, and main then ends with a non-zero exit.
C18_StagesInOrder ==
  /\ \A i \in 1..Len(log) :
       /\ i < Len(log) => log[i].ok
       /\ i > 1 => StageRank(log[i - 1].stage) < StageRank(log[i].stage)
       /\ log[i].stage = "detect" =>
            /\ Preceded(i, "validate")
            /\ job_data.prepare_dataset =>
                 /\ Preceded(i, "resolve")
                 /\ \E j \in 1..(i - 1) : log[j].stage = "prepare" /\ log[j].exit = "zero"
  /\ (log # <<>> /\ ~log[Len(log)].ok) <=> pc \in {"exit_fail", "uncaught"}

C18_Witness ==
  /\ pc = "done"
  /\ Len(log) = 4
  /\ log[3] = Stage("prepare", "zero", TRUE)
  /\ log[4] = Stage("detect", "zero", TRUE)

Max(S) == CHOOSE x \in S : \A y \in S : x >= y

\* The latest call of prepare_dataset read the input file.
SplitRan == returned # <<>> /\ ~returned[Len(returned)].raised

\* ... and every per-segment file was written.
SplitSucceeded == SplitRan /\ returned[Len(returned)].split

\* The lines of the input file the splitter read.
InputLines == readlines(disk[input_filename])

IsHeader(line) == line # <<>> /\ line[1] = ">"

\* The code a header is tagged with: the first code of the catalog that is,
\* letter case aside, one of the tokens lying between two "|" of the header.
TaggedCode(line) ==
  LET tokens == split(strip(line), "|")
      inner  == {[i \in 1..Len(tokens[k]) |-> IGNORECASE(tokens[k][i])] :
                   k \in 2..(Len(tokens) - 1)}
      codes  == {k \in 1..Len(VALID_SEGMENTS) : VALID_SEGMENTS[k] \in inner}
  IN  IF codes = {} THEN None ELSE VALID_SEGMENTS[Min(codes)]

\* C12: for every header line, current_segment becomes the first code in
\* catalog order that occurs in the header between "|" characters, compared
\* case-insensitively, wherever the tokens stand; None when there is none.
C12_CursorFollowsHeader ==
  SplitRan =>
    /\ Len(current_segment) = Len(InputLines)
    /\ \A i \in 1..Len(InputLines) :
         IsHeader(InputLines[i]) => current_segment[i] = TaggedCode(InputLines[i])

C12_Witness ==
  /\ SplitRan
  /\ InputLines = << <<">", "|", "N", "A", "|", "h", "a", "|", "\n">> >>
  /\ current_segment = << <<"H", "A">> >>

\* The tag of the record line i belongs to: that of the latest header at or
\* before it, None before the first header.
Tag(lines, i) ==
  LET headers == {j \in 1..i : IsHeader(lines[j])}
  IN  IF headers = {} THEN None ELSE TaggedCode(lines[Max(headers)])

\* A line without its newline; a header without the whitespace around it.
Chomp(line) ==
  IF IsHeader(line) THEN strip(line)
  ELSE IF line # <<>> /\ line[Len(line)] = "\n" THEN SubSeq(line, 1, Len(line) - 1)
  ELSE line

\* The lines of the records tagged with a segment, in input order, each
\* ended by a single newline.
TaggedLines(lines, segment) ==
  concat([i \in 1..Len(lines) |->
            IF Tag(lines, i) = segment THEN Chomp(lines[i]) \o <<"\n">> ELSE <<>>])

\* C13: after a split into an empty work directory, the file of each segment
\* holds exactly the lines of the records tagged with it, in input order,
\* each once and ended by a single newline; no other line is in any file.
C13_FilesHoldTaggedLines ==
  (SplitSucceeded /\ Len(returned) = 1) =>
    \A segment \in ValidCodes :
      LET file == SegmentFile(WorkDirectory, segment)
          expected == TaggedLines(InputLines, segment)
      IN  IF expected = <<>> THEN ~Exists(disk, file)
          ELSE Exists(disk, file) /\ disk[file] = expected

\* The first line of the input that belongs to a record of the segment.
FirstAppearance(segment) ==
  Min({i \in 1..Len(InputLines) : Tag(InputLines, i) = segment})

\* C14: after a successful split, fasta_segments has no duplicates, lists the
\* segments in the order of their first appearance in the input, and holds a
\* segment if and only if a non-empty file {segment}-input.fasta was written.
C14_SeenSegments ==
  SplitSucceeded =>
    /\ \A i, j \in 1..Len(fasta_segments) :
         i < j =>
           /\ fasta_segments[i] # fasta_segments[j]
           /\ FirstAppearance(fasta_segments[i]) < FirstAppearance(fasta_segments[j])
    /\ \A segment \in ValidCodes :
         InList(segment, fasta_segments) <=>
           /\ Exists(disk, SegmentFile(WorkDirectory, segment))
           /\ GetSize(disk, SegmentFile(WorkDirectory, segment)) > 0
    /\ \A i \in 1..Len(fasta_segments) : fasta_segments[i] \in ValidCodes

C14_Witness ==
  /\ SplitSucceeded
  /\ Len(returned) = 2
  /\ ~returned[1].split
  /\ fasta_segments = << <<"N", "A">>, <<"H", "A">> >>
  /\ Len(InputLines) = 3

\* C19: the inline data of the example, written by prepare_input_file, its
\* headers sanitized before the split, is split into exactly two files:
\* HA-input.fasta with the record seq1 and NA-input.fasta with the record seq2.
C19_ExampleSplitsInTwo ==
  (raw.input_fasta_data = ExamplePayload /\ Len(texts) = 2 /\ SplitSucceeded) =>
    LET ha == SegmentFile(WorkDirectory, <<"H", "A">>)
        na == SegmentFile(WorkDirectory, <<"N", "A">>)
    IN  /\ DOMAIN disk \ {input_filename} = {ha, na}
        /\ InList(<<"A", "C", "G", "T", "\n">>, readlines(disk[ha]))
        /\ ~InList(<<"T", "T", "G", "G", "\n">>, readlines(disk[ha]))
        /\ InList(<<"T", "T", "G", "G", "\n">>, readlines(disk[na]))
        /\ ~InList(<<"A", "C", "G", "T", "\n">>, readlines(disk[na]))

\* C20: when the write of a per-segment file fails, split_fasta_by_segment
\* fails and so does the prepare_dataset that called it.
C20_WriteFailurePropagates ==
  \A i \in 1..Len(returned) : ~returned[i].split => ~returned[i].prepare_dataset

\* Call i of prepare_dataset was a split that followed a successful split
\* into the same work directory, and succeeded too.
SplitAgain(i) ==
  /\ i >= 2
  /\ ~returned[i - 1].raised /\ returned[i - 1].split
  /\ ~returned[i].raised /\ returned[i].split

\* The per-segment files a call left in the work directory.
SegmentFilesOf(i) == DOMAIN returned[i].disk \ {input_filename}

\* C21 as claimed: a second split into a work directory that holds the files
\* of an earlier split of the input adds its text to the end of each file.
C21_SecondSplitAppends ==
  \A i \in 1..Len(returned) :
    SplitAgain(i) =>
      \A file \in SegmentFilesOf(i) :
        returned[i].disk[file] = returned[i - 1].disk[file] \o returned[1].disk[file]

\* C21 as amended: a second split opens each per-segment file for writing
\* and replaces its content: after splitting the same input again every
\* file holds what the first split wrote, once.
C21_SecondSplitReplaces ==
  \A i \in 1..Len(returned) :
    SplitAgain(i) =>
      /\ SegmentFilesOf(i) = SegmentFilesOf(i - 1)
      /\ \A file \in SegmentFilesOf(i) :
           returned[i].disk[file] = returned[i - 1].disk[file]
      /\ disk = returned[Len(returned)].disk

C21_Witness ==
  /\ Len(returned) = 2
  /\ SplitAgain(2)
  /\ SegmentFilesOf(2) = {SegmentFile(WorkDirectory, <<"H", "A">>),
                          SegmentFile(WorkDirectory, <<"N", "A">>)}
  /\ disk[SegmentFile(WorkDirectory, <<"N", "A">>)] = <<">", "b", "|", "N", "A", "|", "\n">>

====
